---- MODULE Spec2Model ----
(***************************************************************************)
(* A model of scripts/update_currency_data.py: the CLDR currency           *)
(* synchronisation script.  CurrencyDataProcessor.run is a straight line   *)
(* of steps (load two reference tables, fetch, parse, four views, the ISO  *)
(* mappings, the metadata); main turns any exception into exit status 1.   *)
(*                                                                         *)
(* Python values are modelled as follows.                                  *)
(*   str that the code orders (dates, region codes, status labels):        *)
(*       the sequence of its character codes, compared as Python compares  *)
(*       str (StrLess).                                                    *)
(*   str that the code only tests for equality (currency codes, names,     *)
(*       the tender attribute, file names): a TLA+ string.                 *)
(*   None where a str is expected: None.  None where a dict is expected:   *)
(*       PyNone.                                                           *)
(*   dict with str keys and fixed shape: a record.  The insertion-ordered  *)
(*       dicts the code iterates (currency_data, the JSON views): a        *)
(*       sequence of <<key, value>> pairs with distinct keys.              *)
(*   datetime.date: a record [year, month, day].                           *)
(* The row field last_updated (the wall-clock instant of the row's         *)
(* creation) is left out of the rows: nothing orders or joins on it.       *)
(***************************************************************************)
EXTENDS Integers, Sequences, FiniteSets, TLC

VARIABLES
    pc,                \* position of main/run
    clock,             \* the calendar date the last date.today() returned
    iso3166_data,      \* self.iso3166_data
    iso4217_data,      \* self.iso4217_data
    xml_content,       \* run's xml_content
    currency_regions,  \* self.currency_regions
    current_df,        \* run's current_df
    historical_df,     \* run's historical_df
    current_json,      \* run's current_json
    historical_json,   \* run's historical_json
    iso_mappings,      \* run's iso_mappings
    metadata,          \* save_metadata's metadata
    written,           \* the files of data/ this run wrote completely, in order
    partial,           \* the files of data/ a failed write left behind
    exit_code,         \* what main returned (NotReturned before it returns)
    history,           \* the steps run attempted: <<step, outcome>>, in order
    currencies,        \* argument of the resolver functions (resolver harness)
    current_date,      \* determine_current_currency's current_date
    current_currency,  \* determine_current_currency's return value
    all_currencies,    \* get_all_currencies's return value
    calls              \* the resolver functions the harness has called

vars == <<pc, clock, iso3166_data, iso4217_data, xml_content, currency_regions,
          current_df, historical_df, current_json, historical_json,
          iso_mappings, metadata, written, partial, exit_code, history,
          currencies, current_date, current_currency, all_currencies, calls>>

runVars == <<pc, iso3166_data, iso4217_data, xml_content, currency_regions,
             current_df, historical_df, current_json, historical_json,
             iso_mappings, metadata, written, partial, exit_code, history>>

resolverVars == <<currencies, current_date, current_currency, all_currencies, calls>>

-----------------------------------------------------------------------------
(* Bounds of the model. *)

\* Longest currency list handed to the resolver functions.
MaxLen == 2

\* Most <currency> elements in the document a run fetches.
MaxElems == 1

\* Most <currency> elements in the parsed document the view generators start from.
MaxViewElems == 2

-----------------------------------------------------------------------------
(* Python values. *)

None == <<-1>>
PyNone == [py_none |-> TRUE]
EmptyDict == [k \in {} |-> None]

\* `not s` for an Optional[str].
Falsy(s) == s = None \/ s = <<>>

\* `s or d` for an Optional[str].
PyOr(s, d) == IF Falsy(s) THEN d ELSE s

\* d.get(k, default) for a dict modelled as a function.
Get(d, k, default) == IF k \in DOMAIN d THEN d[k] ELSE default

Min(a, b) == IF a <= b THEN a ELSE b

\* a < b on str: the first differing character decides, a proper prefix is less.
StrLess(a, b) ==
    \E i \in 1..(Min(Len(a), Len(b)) + 1) :
        /\ \A j \in 1..(i - 1) : a[j] = b[j]
        /\ \/ i > Len(a) /\ i <= Len(b)
           \/ i <= Len(a) /\ i <= Len(b) /\ a[i] < b[i]

StrLE(a, b) == a = b \/ StrLess(a, b)

\* The character of a decimal digit.
Digit(n) == 48 + n

Pad2(n) == <<Digit((n \div 10) % 10), Digit(n % 10)>>

Pad4(n) == <<Digit((n \div 1000) % 10), Digit((n \div 100) % 10)>> \o Pad2(n)

\* d.strftime('%Y-%m-%d')
strftime(d) == Pad4(d.year) \o <<45>> \o Pad2(d.month) \o <<45>> \o Pad2(d.day)

\* The str literals the code orders.
STR_Unknown == <<85, 110, 107, 110, 111, 119, 110>>
STR_Active == <<65, 99, 116, 105, 118, 101>>
STR_Historical == <<72, 105, 115, 116, 111, 114, 105, 99, 97, 108>>
STR_0000_01_01 == strftime([year |-> 0, month |-> 1, day |-> 1])

\* Python's sorted and pandas' sort_values on several columns: a stable sort.
\* less holds <<j, i>> when element j compares less than element i.  Element i
\* goes to the place one past the number of elements that are less, or equal
\* and earlier.
Sorted(seq, less) ==
    LET n == Len(seq)
        before(j, i) == <<j, i>> \in less \/ (<<i, j>> \notin less /\ j < i)
        pos(i) == 1 + Cardinality({j \in 1..n : before(j, i)})
    IN  [p \in 1..n |-> seq[CHOOSE i \in 1..n : pos(i) = p]]

\* The pairs of places of seq.
Pairs(seq) == (DOMAIN seq) \X (DOMAIN seq)

-----------------------------------------------------------------------------
(* The calendar: what date.today() may return. *)

Day1 == [year |-> 2001, month |-> 12, day |-> 31]
Day2 == [year |-> 2002, month |-> 1, day |-> 1]
Days == {Day1, Day2}

DateLE(a, b) ==
    \/ a.year < b.year
    \/ a.year = b.year /\ a.month < b.month
    \/ a.year = b.year /\ a.month = b.month /\ a.day <= b.day

\* date.today(): the calendar never runs backwards.
Today(d) == d \in Days /\ DateLE(clock, d)

-----------------------------------------------------------------------------
(* Currency Resolver. *)

\* A variant of determine_current_currency that does not skip non-tender entries.
RECURSIVE determine_current_currency_no_tender_check(_, _)
determine_current_currency_no_tender_check(list, today) ==
    IF list = <<>> THEN PyNone
    ELSE LET currency == Head(list) IN
         IF Falsy(currency.to) THEN currency
         ELSE IF StrLE(today, currency.to) THEN currency
         ELSE determine_current_currency_no_tender_check(Tail(list), today)

\* determine_current_currency, with current_date as read from the clock.
RECURSIVE determine_current_currency(_, _)
determine_current_currency(list, today) ==
    IF list = <<>> THEN PyNone
    ELSE LET currency == Head(list) IN
         IF currency.tender = "false"
         THEN determine_current_currency(Tail(list), today)
         ELSE IF Falsy(currency.to) THEN currency
         ELSE IF StrLE(today, currency.to) THEN currency
         ELSE determine_current_currency(Tail(list), today)

FromKey(x) == PyOr(x.from, STR_0000_01_01)

\* A variant of get_all_currencies whose key for an absent validFrom is 'Unknown'.
get_all_currencies_unknown_last(list) ==
    LET all == SelectSeq(list, LAMBDA c : c.tender # "false") IN
    Sorted(all, {p \in Pairs(all) : StrLess(PyOr(all[p[1]].from, STR_Unknown),
                                            PyOr(all[p[2]].from, STR_Unknown))})

\* A variant of get_all_currencies that keeps the non-tender entries.
get_all_currencies_keeps_non_tender(list) ==
    Sorted(list, {p \in Pairs(list) : StrLess(FromKey(list[p[1]]), FromKey(list[p[2]]))})

get_all_currencies(list) ==
    LET all == SelectSeq(list, LAMBDA c : c.tender # "false") IN
    Sorted(all, {p \in Pairs(all) : StrLess(FromKey(all[p[1]]), FromKey(all[p[2]]))})

-----------------------------------------------------------------------------
(* The inputs. *)

IsoCodes == {"EUR", "DEM"}
DateStrings == {strftime(Day1), strftime(Day2)}
FromValues == {None} \cup DateStrings
ToValues == {None, strftime(Day1)}
TenderValues == {"true", "false"}

\* A parsed <currency> element (parse_currency_xml's currency_info).
CurrencyInfos ==
    [iso4217 : IsoCodes, from : FromValues, to : ToValues, tender : TenderValues]

\* The sequences over S of length at most n.
SeqUpTo(S, n) == UNION {[1..k -> S] : k \in 0..n}

-----------------------------------------------------------------------------
(* Reference tables (pycountry) and the CLDR document. *)

RC_AA == <<65, 65>>
RC_AB == <<65, 66>>
RegionCodes == {RC_AA, RC_AB}

Country(code, a3, name) ==
    [alpha_2 |-> code, alpha_3 |-> a3, name |-> name, official_name |-> name]

\* What fetch_iso3166_data may build: both regions known; one region absent;
\* records whose name is empty or "Unknown".
CountryTables ==
    { [c \in RegionCodes |->
          IF c = RC_AA THEN Country(c, "AAA", "Aland") ELSE Country(c, "ABB", "Bland")],
      [c \in {RC_AA} |-> Country(c, "AAA", "Aland")],
      [c \in RegionCodes |->
          IF c = RC_AA THEN Country(c, "AAA", "") ELSE Country(c, "ABB", "Unknown")] }

\* What fetch_iso4217_data builds: pycountry lists EUR, not the withdrawn DEM.
CurrencyTable ==
    [c \in {"EUR"} |-> [code |-> c, name |-> "Euro", numeric |-> "978"]]

\* The attributes of a <currency> element: from, to and tender may be absent.
Attrs(c, f, t, td) ==
    [iso4217 |-> c]
        @@ (IF f = None THEN EmptyDict ELSE [from |-> f])
        @@ (IF t = None THEN EmptyDict ELSE [to |-> t])
        @@ (IF td = "true" THEN EmptyDict ELSE [tender |-> td])

\* The <currency> elements of the documents: from is absent or one date.
CurrencyElems ==
    {Attrs(c, f, t, td) : c \in IsoCodes, f \in {None, strftime(Day2)},
                          t \in ToValues, td \in TenderValues}

\* The <region> sequences with distinct codes among `codes` holding at most n
\* <currency> elements in all.
RECURSIVE RegionElems(_, _)
RegionElems(codes, n) ==
    {<<>>} \cup
    UNION { UNION { { <<[iso3166 |-> c, currency |-> l]>> \o rest :
                        rest \in RegionElems(codes \ {c}, n - Len(l)) } :
                    l \in SeqUpTo(CurrencyElems, n) } :
            c \in codes }

MalformedXml == [wellformed |-> FALSE]
NoCurrencyData == [wellformed |-> TRUE, has_currencyData |-> FALSE]
Document(regions) ==
    [wellformed |-> TRUE, has_currencyData |-> TRUE, regions |-> regions]

-----------------------------------------------------------------------------
(* Insertion-ordered dicts: sequences of <<key, value>> pairs. *)

HasKey(d, k) == \E i \in 1..Len(d) : d[i][1] = k

\* d[k] = v: a new key goes last, a known key keeps its place.
DictSet(d, k, v) ==
    IF HasKey(d, k)
    THEN [i \in 1..Len(d) |-> IF d[i][1] = k THEN <<k, v>> ELSE d[i]]
    ELSE Append(d, <<k, v>>)

-----------------------------------------------------------------------------
(* Region-Currency Parser. *)

parse_currency(elem) ==
    [iso4217 |-> Get(elem, "iso4217", None),
     from |-> Get(elem, "from", None),
     to |-> Get(elem, "to", None),
     tender |-> Get(elem, "tender", "true")]

RECURSIVE parse_regions(_, _)
parse_regions(regions, currency_data) ==
    IF regions = <<>> THEN currency_data
    ELSE LET region_elem == Head(regions)
             region_code == region_elem.iso3166
         IN  IF Falsy(region_code)
             THEN parse_regions(Tail(regions), currency_data)
             ELSE parse_regions(Tail(regions),
                      DictSet(currency_data, region_code,
                          [i \in 1..Len(region_elem.currency) |->
                              parse_currency(region_elem.currency[i])]))

\* parse_currency_xml on a document it accepts.
parse_currency_xml(xml) == parse_regions(xml.regions, <<>>)

\* parse_currency_xml raises: ET.ParseError, or ValueError for a missing section.
parse_raises(xml) == ~xml.wellformed \/ ~xml.has_currencyData

-----------------------------------------------------------------------------
(* View Generator. *)

\* A variant of is_valid_region that lets the name 'Unknown' pass.
is_valid_region_accepts_unknown(region_code, country_info) ==
    LET country_name == Get(country_info, "name", "Unknown") IN
    ~(country_name = "") /\ ~(DOMAIN country_info = {})

is_valid_region(region_code, country_info) ==
    LET country_name == Get(country_info, "name", "Unknown") IN
    IF country_name \in {"Unknown", ""} THEN FALSE
    ELSE IF DOMAIN country_info = {} THEN FALSE
    ELSE TRUE

Status(currency, today) ==
    IF Falsy(currency.to) THEN STR_Active
    ELSE IF StrLE(today, currency.to) THEN STR_Active
    ELSE STR_Historical

CountryColumns(country_info) ==
    [country_name |-> Get(country_info, "name", "None"),
     official_country_name |->
         Get(country_info, "official_name", Get(country_info, "name", "None")),
     iso_alpha3_code |-> Get(country_info, "alpha_3", "")]

\* A variant of CurrencyName that falls back to 'Unknown', not to the code.
CurrencyName_unknown_placeholder(iso4217_table, code) ==
    Get(Get(iso4217_table, code, EmptyDict), "name", "Unknown")

CurrencyName(iso4217_table, code) ==
    Get(Get(iso4217_table, code, EmptyDict), "name", code)

CurrentFields(iso4217_table, country_info, current) ==
    CountryColumns(country_info) @@
    [currency_code |-> current.iso4217,
     currency_name |-> CurrencyName(iso4217_table, current.iso4217),
     active_since |-> PyOr(current.from, STR_Unknown)]

HistoricalFields(iso4217_table, currency, today) ==
    [currency_code |-> currency.iso4217,
     currency_name |-> CurrencyName(iso4217_table, currency.iso4217),
     active_from |-> PyOr(currency.from, STR_Unknown),
     active_until |-> PyOr(currency.to, <<>>),
     status |-> Status(currency, today)]

\* generate_current_currencies_csv: the rows, in currency_data's order.
\* todays[i] is what date.today() returns in the i-th region's
\* determine_current_currency call.
RECURSIVE current_rows(_, _, _, _, _)
current_rows(currency_data, iso3166_table, iso4217_table, todays, i) ==
    IF i > Len(currency_data) THEN <<>>
    ELSE LET region_code == currency_data[i][1]
             country_info == Get(iso3166_table, region_code, EmptyDict)
             rest == current_rows(currency_data, iso3166_table, iso4217_table, todays, i + 1)
         IN  IF ~is_valid_region(region_code, country_info) THEN rest
             ELSE LET current == determine_current_currency(currency_data[i][2],
                                                            strftime(todays[i]))
                  IN  IF current = PyNone THEN rest
                      ELSE <<[country_code |-> region_code]
                               @@ CurrentFields(iso4217_table, country_info, current)>>
                           \o rest

generate_current_currencies_csv(currency_data, iso3166_table, iso4217_table, todays) ==
    current_rows(currency_data, iso3166_table, iso4217_table, todays, 1)

\* The rows of one region of the historical CSV.
region_historical_rows(region_code, country_info, iso4217_table, list, today) ==
    LET all == get_all_currencies(list) IN
    [k \in 1..Len(all) |->
        [country_code |-> region_code] @@ CountryColumns(country_info)
            @@ HistoricalFields(iso4217_table, all[k], today)]

RECURSIVE historical_rows(_, _, _, _, _)
historical_rows(currency_data, iso3166_table, iso4217_table, today, i) ==
    IF i > Len(currency_data) THEN <<>>
    ELSE LET region_code == currency_data[i][1]
             country_info == Get(iso3166_table, region_code, EmptyDict)
             rest == historical_rows(currency_data, iso3166_table, iso4217_table, today, i + 1)
         IN  IF ~is_valid_region(region_code, country_info) THEN rest
             ELSE region_historical_rows(region_code, country_info, iso4217_table,
                                         currency_data[i][2], today) \o rest

\* df.sort_values(['country_code', 'status', 'active_from'],
\*                ascending=[True, False, True]) compares two rows.
HistoricalRowLess(a, b) ==
    \/ StrLess(a.country_code, b.country_code)
    \/ /\ a.country_code = b.country_code
       /\ \/ StrLess(b.status, a.status)
          \/ a.status = b.status /\ StrLess(a.active_from, b.active_from)

generate_historical_currencies_csv(currency_data, iso3166_table, iso4217_table, today) ==
    LET rows == historical_rows(currency_data, iso3166_table, iso4217_table, today, 1) IN
    IF rows = <<>> THEN rows
    ELSE Sorted(rows, {p \in Pairs(rows) : HistoricalRowLess(rows[p[1]], rows[p[2]])})

RECURSIVE current_entries(_, _, _, _, _)
current_entries(currency_data, iso3166_table, iso4217_table, todays, i) ==
    IF i > Len(currency_data) THEN <<>>
    ELSE LET region_code == currency_data[i][1]
             country_info == Get(iso3166_table, region_code, EmptyDict)
             rest == current_entries(currency_data, iso3166_table, iso4217_table, todays, i + 1)
         IN  IF ~is_valid_region(region_code, country_info) THEN rest
             ELSE LET current == determine_current_currency(currency_data[i][2],
                                                            strftime(todays[i]))
                  IN  IF current = PyNone THEN rest
                      ELSE <<<<region_code,
                               CurrentFields(iso4217_table, country_info, current)>>>>
                           \o rest

generate_current_currencies_json(currency_data, iso3166_table, iso4217_table, todays) ==
    current_entries(currency_data, iso3166_table, iso4217_table, todays, 1)

RECURSIVE historical_entries(_, _, _, _, _)
historical_entries(currency_data, iso3166_table, iso4217_table, today, i) ==
    IF i > Len(currency_data) THEN <<>>
    ELSE LET region_code == currency_data[i][1]
             country_info == Get(iso3166_table, region_code, EmptyDict)
             rest == historical_entries(currency_data, iso3166_table, iso4217_table, today, i + 1)
         IN  IF ~is_valid_region(region_code, country_info) THEN rest
             ELSE LET all == get_all_currencies(currency_data[i][2])
                      currency_list ==
                          [k \in 1..Len(all) |->
                              HistoricalFields(iso4217_table, all[k], today)]
                  IN  IF currency_list = <<>> THEN rest
                      ELSE <<<<region_code,
                               CountryColumns(country_info)
                                   @@ [currencies |-> currency_list]>>>>
                           \o rest

generate_historical_currencies_json(currency_data, iso3166_table, iso4217_table, today) ==
    historical_entries(currency_data, iso3166_table, iso4217_table, today, 1)

generate_iso_mappings(iso3166_table, iso4217_table) ==
    [countries |-> [c \in DOMAIN iso3166_table |-> iso3166_table[c].name],
     currencies |-> [c \in DOMAIN iso4217_table |-> iso4217_table[c].name],
     alpha2_to_alpha3 |->
         [c \in {x \in DOMAIN iso3166_table : Get(iso3166_table[x], "alpha_3", "") # ""}
             |-> iso3166_table[c].alpha_3]]

-----------------------------------------------------------------------------
(* The resolver harness: the two pure functions on every bounded list. *)

NotReturned == -1

RunIdle ==
    /\ pc = "idle"
    /\ iso3166_data = EmptyDict
    /\ iso4217_data = EmptyDict
    /\ xml_content = PyNone
    /\ currency_regions = <<>>
    /\ current_df = <<>>
    /\ historical_df = <<>>
    /\ current_json = <<>>
    /\ historical_json = <<>>
    /\ iso_mappings = PyNone
    /\ metadata = PyNone
    /\ written = <<>>
    /\ partial = {}
    /\ exit_code = NotReturned
    /\ history = <<>>

InitResolver ==
    /\ RunIdle
    /\ clock = Day1
    /\ currencies \in SeqUpTo(CurrencyInfos, MaxLen)
    /\ current_date = None
    /\ current_currency = PyNone
    /\ all_currencies = <<>>
    /\ calls = {}

CallDetermineCurrentCurrency ==
    /\ "determine_current_currency" \notin calls
    /\ \E d \in Days :
        /\ Today(d)
        /\ clock' = d
        /\ current_date' = strftime(d)
        /\ current_currency' = determine_current_currency(currencies, strftime(d))
    /\ calls' = calls \cup {"determine_current_currency"}
    /\ UNCHANGED <<runVars, currencies, all_currencies>>

CallGetAllCurrencies ==
    /\ "get_all_currencies" \notin calls
    /\ all_currencies' = get_all_currencies(currencies)
    /\ calls' = calls \cup {"get_all_currencies"}
    /\ UNCHANGED <<runVars, clock, currencies, current_date, current_currency>>

NextResolver == CallDetermineCurrentCurrency \/ CallGetAllCurrencies

SpecResolver == InitResolver /\ [][NextResolver]_vars

-----------------------------------------------------------------------------
(* main and CurrencyDataProcessor.run. *)

GENERATOR_VERSION == "1.2.0"

ResolverIdle ==
    /\ currencies = <<>>
    /\ current_date = None
    /\ current_currency = PyNone
    /\ all_currencies = <<>>
    /\ calls = {}

\* The state when main has built the CurrencyDataProcessor and calls run.
Init ==
    /\ pc = "makedirs"
    /\ clock = Day1
    /\ iso3166_data = EmptyDict
    /\ iso4217_data = EmptyDict
    /\ xml_content = PyNone
    /\ currency_regions = <<>>
    /\ current_df = <<>>
    /\ historical_df = <<>>
    /\ current_json = <<>>
    /\ historical_json = <<>>
    /\ iso_mappings = PyNone
    /\ metadata = PyNone
    /\ written = <<>>
    /\ partial = {}
    /\ exit_code = NotReturned
    /\ history = <<>>
    /\ ResolverIdle

\* A step of run ends: the next statement, or the exception that leaves run.
Ends(step, outcome, next) ==
    /\ history' = Append(history, <<step, outcome>>)
    /\ pc' = IF outcome = "failed" THEN "except" ELSE next

\* A variant of Write that removes the files written so far when a write fails.
Write_cleans_up(step, file, next) ==
    \/ /\ written' = Append(written, file)
       /\ partial' = partial
       /\ Ends(step, "ok", next)
    \/ /\ written' = <<>>
       /\ partial' = partial
       /\ Ends(step, "failed", next)

\* to_csv / open + json.dump of one file: it is written, or the write raises
\* and leaves nothing or a truncated file behind.
Write(step, file, next) ==
    \/ /\ written' = Append(written, file)
       /\ partial' = partial
       /\ Ends(step, "ok", next)
    \/ /\ written' = written
       /\ partial' \in {partial, partial \cup {file}}
       /\ Ends(step, "failed", next)

\* What date.today() returns in n successive calls.
Todays(n) ==
    {ds \in [1..n -> Days] :
        /\ n > 0 => DateLE(clock, ds[1])
        /\ \A i \in 1..(n - 1) : DateLE(ds[i], ds[i + 1])}

\* os.makedirs('data', exist_ok=True)
MakeDirs ==
    /\ pc = "makedirs"
    /\ \E outcome \in {"ok", "failed"} : Ends("makedirs", outcome, "load3166")
    /\ UNCHANGED <<clock, iso3166_data, iso4217_data, xml_content, currency_regions,
                   current_df, historical_df, current_json, historical_json,
                   iso_mappings, metadata, written, partial, exit_code, resolverVars>>

\* self.iso3166_data = self.fetch_iso3166_data(): the table, or {} on any exception.
FetchIso3166 ==
    /\ pc = "load3166"
    /\ \/ /\ iso3166_data' \in CountryTables
          /\ Ends("load3166", "ok", "load4217")
       \/ /\ iso3166_data' = EmptyDict
          /\ Ends("load3166", "empty", "load4217")
    /\ UNCHANGED <<clock, iso4217_data, xml_content, currency_regions,
                   current_df, historical_df, current_json, historical_json,
                   iso_mappings, metadata, written, partial, exit_code, resolverVars>>

\* self.iso4217_data = self.fetch_iso4217_data(): the table, or {} on any exception.
FetchIso4217 ==
    /\ pc = "load4217"
    /\ \/ /\ iso4217_data' = CurrencyTable
          /\ Ends("load4217", "ok", "fetch")
       \/ /\ iso4217_data' = EmptyDict
          /\ Ends("load4217", "empty", "fetch")
    /\ UNCHANGED <<clock, iso3166_data, xml_content, currency_regions,
                   current_df, historical_df, current_json, historical_json,
                   iso_mappings, metadata, written, partial, exit_code, resolverVars>>

XmlContents ==
    {MalformedXml, NoCurrencyData}
        \cup {Document(r) : r \in RegionElems(RegionCodes, MaxElems)}

\* xml_content = self.fetch_cldr_currency_data(): the body, or RequestException.
FetchCldr ==
    /\ pc = "fetch"
    /\ \/ /\ xml_content' \in XmlContents
          /\ Ends("fetch", "ok", "parse")
       \/ /\ xml_content' = xml_content
          /\ Ends("fetch", "failed", "parse")
    /\ UNCHANGED <<clock, iso3166_data, iso4217_data, currency_regions,
                   current_df, historical_df, current_json, historical_json,
                   iso_mappings, metadata, written, partial, exit_code, resolverVars>>

\* self.currency_regions = self.parse_currency_xml(xml_content)
ParseCurrencyXml ==
    /\ pc = "parse"
    /\ IF parse_raises(xml_content)
       THEN /\ currency_regions' = currency_regions
            /\ Ends("parse", "failed", "current_csv")
       ELSE /\ currency_regions' = parse_currency_xml(xml_content)
            /\ Ends("parse", "ok", "current_csv")
    /\ UNCHANGED <<clock, iso3166_data, iso4217_data, xml_content,
                   current_df, historical_df, current_json, historical_json,
                   iso_mappings, metadata, written, partial, exit_code, resolverVars>>

\* current_df = self.generate_current_currencies_csv(...); current_df.to_csv(...)
WriteCurrentCsv ==
    /\ pc = "current_csv"
    /\ \E todays \in Todays(Len(currency_regions)) :
        /\ current_df' = generate_current_currencies_csv(
                             currency_regions, iso3166_data, iso4217_data, todays)
        /\ clock' = IF todays = <<>> THEN clock ELSE todays[Len(todays)]
    /\ Write("current_csv", "current_currencies.csv", "historical_csv")
    /\ UNCHANGED <<iso3166_data, iso4217_data, xml_content, currency_regions,
                   historical_df, current_json, historical_json,
                   iso_mappings, metadata, exit_code, resolverVars>>

\* historical_df = self.generate_historical_currencies_csv(...); historical_df.to_csv(...)
WriteHistoricalCsv ==
    /\ pc = "historical_csv"
    /\ \E d \in Days :
        /\ Today(d)
        /\ clock' = d
        /\ historical_df' = generate_historical_currencies_csv(
                                currency_regions, iso3166_data, iso4217_data, strftime(d))
    /\ Write("historical_csv", "historical_currencies.csv", "current_json")
    /\ UNCHANGED <<iso3166_data, iso4217_data, xml_content, currency_regions,
                   current_df, current_json, historical_json,
                   iso_mappings, metadata, exit_code, resolverVars>>

\* current_json = self.generate_current_currencies_json(...); json.dump(...)
WriteCurrentJson ==
    /\ pc = "current_json"
    /\ \E todays \in Todays(Len(currency_regions)) :
        /\ current_json' = generate_current_currencies_json(
                               currency_regions, iso3166_data, iso4217_data, todays)
        /\ clock' = IF todays = <<>> THEN clock ELSE todays[Len(todays)]
    /\ Write("current_json", "current_currencies.json", "historical_json")
    /\ UNCHANGED <<iso3166_data, iso4217_data, xml_content, currency_regions,
                   current_df, historical_df, historical_json,
                   iso_mappings, metadata, exit_code, resolverVars>>

\* historical_json = self.generate_historical_currencies_json(...); json.dump(...)
WriteHistoricalJson ==
    /\ pc = "historical_json"
    /\ \E d \in Days :
        /\ Today(d)
        /\ clock' = d
        /\ historical_json' = generate_historical_currencies_json(
                                  currency_regions, iso3166_data, iso4217_data, strftime(d))
    /\ Write("historical_json", "historical_currencies.json", "iso_mappings")
    /\ UNCHANGED <<iso3166_data, iso4217_data, xml_content, currency_regions,
                   current_df, historical_df, current_json,
                   iso_mappings, metadata, exit_code, resolverVars>>

\* iso_mappings = self.generate_iso_mappings(); json.dump(...)
WriteIsoMappings ==
    /\ pc = "iso_mappings"
    /\ iso_mappings' = generate_iso_mappings(iso3166_data, iso4217_data)
    /\ Write("iso_mappings", "iso_mappings.json", "metadata")
    /\ UNCHANGED <<clock, iso3166_data, iso4217_data, xml_content, currency_regions,
                   current_df, historical_df, current_json, historical_json,
                   metadata, exit_code, resolverVars>>

\* self.save_metadata()
SaveMetadata ==
    /\ pc = "metadata"
    /\ metadata' = [total_regions |-> Len(currency_regions),
                    generator_version |-> GENERATOR_VERSION]
    /\ Write("metadata", "metadata.json", "return")
    /\ UNCHANGED <<clock, iso3166_data, iso4217_data, xml_content, currency_regions,
                   current_df, historical_df, current_json, historical_json,
                   iso_mappings, exit_code, resolverVars>>

\* main: processor.run() returned; return 0
MainReturn0 ==
    /\ pc = "return"
    /\ exit_code' = 0
    /\ pc' = "done"
    /\ UNCHANGED <<clock, iso3166_data, iso4217_data, xml_content, currency_regions,
                   current_df, historical_df, current_json, historical_json,
                   iso_mappings, metadata, written, partial, history, resolverVars>>

\* A variant of MainReturn1 that swallows the exception and returns 0.
MainReturn1_returns_0 ==
    /\ pc = "except"
    /\ exit_code' = 0
    /\ pc' = "done"
    /\ UNCHANGED <<clock, iso3166_data, iso4217_data, xml_content, currency_regions,
                   current_df, historical_df, current_json, historical_json,
                   iso_mappings, metadata, written, partial, history, resolverVars>>

\* main: except Exception; return 1
MainReturn1 ==
    /\ pc = "except"
    /\ exit_code' = 1
    /\ pc' = "done"
    /\ UNCHANGED <<clock, iso3166_data, iso4217_data, xml_content, currency_regions,
                   current_df, historical_df, current_json, historical_json,
                   iso_mappings, metadata, written, partial, history, resolverVars>>

NextViews ==
    \/ WriteCurrentCsv
    \/ WriteHistoricalCsv
    \/ WriteCurrentJson
    \/ WriteHistoricalJson

Next ==
    \/ MakeDirs
    \/ FetchIso3166
    \/ FetchIso4217
    \/ FetchCldr
    \/ ParseCurrencyXml
    \/ NextViews
    \/ WriteIsoMappings
    \/ SaveMetadata
    \/ MainReturn0
    \/ MainReturn1

Spec == Init /\ [][Next]_vars

\* The state of a run on day `day` whose loads, fetch and parse have succeeded,
\* for every bounded parsed document.
InitViewsOn(day) ==
    /\ pc = "current_csv"
    /\ clock = day
    /\ iso3166_data \in CountryTables
    /\ iso4217_data = CurrencyTable
    /\ \E r \in RegionElems(RegionCodes, MaxViewElems) :
        /\ xml_content = Document(r)
        /\ currency_regions = parse_currency_xml(Document(r))
    /\ current_df = <<>>
    /\ historical_df = <<>>
    /\ current_json = <<>>
    /\ historical_json = <<>>
    /\ iso_mappings = PyNone
    /\ metadata = PyNone
    /\ written = <<>>
    /\ partial = {}
    /\ exit_code = NotReturned
    /\ history = << <<"makedirs", "ok">>, <<"load3166", "ok">>, <<"load4217", "ok">>,
                    <<"fetch", "ok">>, <<"parse", "ok">> >>
    /\ ResolverIdle

InitViews == InitViewsOn(Day1)

\* The view generators of a run, the calendar date free to change between two
\* readings of it.
SpecViews == InitViews /\ [][NextViews]_vars

\* The view generators of a run during which the calendar date does not change.
InitViewsAnyDay == \E day \in Days : InitViewsOn(day)

SpecViewsOneDay == InitViewsAnyDay /\ [][NextViews /\ clock' = clock]_vars

-----------------------------------------------------------------------------
(* Vocabulary of the properties. *)

Range(seq) == {seq[i] : i \in DOMAIN seq}

Count(seq, e) == Cardinality({i \in DOMAIN seq : seq[i] = e})

DigitValue(c) == c - 48

\* The calendar date an ISO string YYYY-MM-DD denotes.
ParseDate(s) ==
    [year |-> 1000 * DigitValue(s[1]) + 100 * DigitValue(s[2])
                  + 10 * DigitValue(s[3]) + DigitValue(s[4]),
     month |-> 10 * DigitValue(s[6]) + DigitValue(s[7]),
     day |-> 10 * DigitValue(s[9]) + DigitValue(s[10])]

IsTender(e) == e.tender = "true"

\* e is tender and its validTo is absent or on/after today.
Qualifies(e, today) ==
    IsTender(e) /\ (e.to = None \/ DateLE(today, ParseDate(e.to)))

\* validFrom of a is not after validFrom of b, an absent validFrom being earliest.
FromNotAfter(a_from, b_from) ==
    \/ a_from = None
    \/ b_from # None /\ DateLE(ParseDate(a_from), ParseDate(b_from))

Attempted(step) == \E i \in DOMAIN history : history[i][1] = step
Completed(step) == <<step, "ok">> \in Range(history)

-----------------------------------------------------------------------------
(* C1 *)

\* C1: determine_current_currency returns the first entry, in list order, that
\* is tender and whose validTo is absent or on/after today, and None when no
\* entry qualifies.
C1_FirstQualifying ==
    "determine_current_currency" \in calls =>
        LET today == ParseDate(current_date)
            Q == {i \in 1..Len(currencies) : Qualifies(currencies[i], today)}
        IN  IF Q = {} THEN current_currency = PyNone
            ELSE current_currency = currencies[CHOOSE i \in Q : \A j \in Q : i <= j]

\* A non-tender entry without end date comes first and is passed over for a
\* tender entry that ends today.
C1_Witness ==
    /\ "determine_current_currency" \in calls
    /\ Len(currencies) = 2
    /\ currencies[1].tender = "false" /\ currencies[1].to = None
    /\ currencies[2].tender = "true" /\ currencies[2].to = current_date
    /\ current_currency = currencies[2]

-----------------------------------------------------------------------------
(* C2 *)

\* C2: get_all_currencies returns exactly the tender entries of its input, each
\* as often as the input holds it, ordered non-decreasing by validFrom with an
\* absent validFrom first.
C2_TenderSortedByFrom ==
    "get_all_currencies" \in calls =>
        /\ \A e \in CurrencyInfos :
              Count(all_currencies, e) = IF IsTender(e) THEN Count(currencies, e) ELSE 0
        /\ Len(all_currencies)
              = Cardinality({i \in DOMAIN currencies : IsTender(currencies[i])})
        /\ \A i, j \in DOMAIN all_currencies :
              i < j => FromNotAfter(all_currencies[i].from, all_currencies[j].from)

\* A dated tender entry precedes a tender entry without validFrom in the input
\* and follows it in the output.
C2_Witness ==
    /\ "get_all_currencies" \in calls
    /\ Len(currencies) = 2
    /\ IsTender(currencies[1]) /\ currencies[1].from # None
    /\ IsTender(currencies[2]) /\ currencies[2].from = None
    /\ all_currencies = <<currencies[2], currencies[1]>>

-----------------------------------------------------------------------------
(* C3 *)

\* The validFrom a historical row shows: 'Unknown' stands for an absent one.
RowFrom(row) == IF row.active_from = STR_Unknown THEN None ELSE row.active_from

\* Rows of the historical CSV are in ascending region-code order.
C3_RegionAscending ==
    \A i, j \in DOMAIN historical_df :
        i < j => StrLE(historical_df[i].country_code, historical_df[j].country_code)

\* Within a region no Historical row precedes an Active row.
C3_ActiveFirst ==
    \A i, j \in DOMAIN historical_df :
        (i < j /\ historical_df[i].country_code = historical_df[j].country_code)
            => ~(historical_df[i].status = STR_Historical
                 /\ historical_df[j].status = STR_Active)

\* Within a region and status, rows are in ascending validFrom order, an absent
\* validFrom being earliest.
C3_FromAscending ==
    \A i, j \in DOMAIN historical_df :
        (/\ i < j
         /\ historical_df[i].country_code = historical_df[j].country_code
         /\ historical_df[i].status = historical_df[j].status)
            => FromNotAfter(RowFrom(historical_df[i]), RowFrom(historical_df[j]))

\* C3: the historical CSV is ordered by region code ascending, then Active
\* before Historical, then validFrom ascending with an absent validFrom first.
C3_HistoricalOrder ==
    Attempted("historical_csv") =>
        C3_RegionAscending /\ C3_ActiveFirst /\ C3_FromAscending

-----------------------------------------------------------------------------
(* C4 *)

Entry4(x) == <<x.currency_code, x.active_from, x.active_until, x.status>>

CsvEntriesOf(region_code) ==
    {Entry4(row) : row \in {x \in Range(historical_df) : x.country_code = region_code}}

\* C4: every region key of the historical JSON has rows in the historical CSV,
\* with the same set of (currency code, active_from, active_until, status).
C4_JsonMatchesCsv ==
    Attempted("historical_json") =>
        \A k \in DOMAIN historical_json :
            LET region_code == historical_json[k][1]
                listed == {Entry4(x) : x \in Range(historical_json[k][2].currencies)}
            IN  CsvEntriesOf(region_code) # {} /\ CsvEntriesOf(region_code) = listed

-----------------------------------------------------------------------------
(* C10 *)

\* C10: the current CSV holds at most one row per region; every current row has
\* an Active historical row of the same region, currency code and active-from;
\* every region with an Active historical row has a current row.
C10_CurrentAgreesWithHistorical ==
    Attempted("historical_csv") =>
        /\ \A i, j \in DOMAIN current_df :
              i # j => current_df[i].country_code # current_df[j].country_code
        /\ \A row \in Range(current_df) :
              \E h \in Range(historical_df) :
                  /\ h.country_code = row.country_code
                  /\ h.currency_code = row.currency_code
                  /\ h.active_from = row.active_since
                  /\ h.status = STR_Active
        /\ \A h \in Range(historical_df) :
              h.status = STR_Active =>
                  \E row \in Range(current_df) : row.country_code = h.country_code

-----------------------------------------------------------------------------
(* C5 *)

\* The region has no country record, or its name is empty or "Unknown".
InvalidRegion(region_code) ==
    \/ region_code \notin DOMAIN iso3166_data
    \/ iso3166_data[region_code].name \in {"", "Unknown"}

\* The region has a row or an entry in one of the four views.
RegionHasOutput(region_code) ==
    \/ \E row \in Range(current_df) : row.country_code = region_code
    \/ \E row \in Range(historical_df) : row.country_code = region_code
    \/ HasKey(current_json, region_code)
    \/ HasKey(historical_json, region_code)

\* The <<region code, country_name>> pairs the four views carry.
EmittedNames ==
    {<<row.country_code, row.country_name>> : row \in Range(current_df)}
        \cup {<<row.country_code, row.country_name>> : row \in Range(historical_df)}
        \cup {<<e[1], e[2].country_name>> : e \in Range(current_json)}
        \cup {<<e[1], e[2].country_name>> : e \in Range(historical_json)}

\* C5: a region without country record, or named "" or "Unknown", has no row or
\* entry in any of the four views; every emitted country_name is the reference
\* table's name for the region code, non-empty and not "Unknown".
C5_InvalidRegionsSkipped ==
    /\ \A region_code \in RegionCodes :
          InvalidRegion(region_code) => ~RegionHasOutput(region_code)
    /\ \A e \in EmittedNames :
          /\ e[1] \in DOMAIN iso3166_data
          /\ e[2] = iso3166_data[e[1]].name
          /\ e[2] \notin {"", "Unknown"}

\* All four views were generated and written; a region named "Unknown" in the
\* table holds a tender currency without end date and has no output.
C5_Witness ==
    /\ pc = "iso_mappings"
    /\ \E k \in DOMAIN currency_regions :
          /\ currency_regions[k][1] \in DOMAIN iso3166_data
          /\ iso3166_data[currency_regions[k][1]].name = "Unknown"
          /\ \E e \in Range(currency_regions[k][2]) : IsTender(e) /\ e.to = None
          /\ ~RegionHasOutput(currency_regions[k][1])

-----------------------------------------------------------------------------
(* C6 *)

\* The parsed currency list of a region (empty when the region is not parsed).
ListOf(region_code) ==
    IF HasKey(currency_regions, region_code)
    THEN currency_regions[CHOOSE k \in DOMAIN currency_regions :
                              currency_regions[k][1] = region_code][2]
    ELSE <<>>

\* What a historical row shows of the entry it was made from.
HistoricalTriple(x) == <<x.currency_code, x.active_from, x.active_until>>
EntryTriple(e) == <<e.iso4217, PyOr(e.from, STR_Unknown), PyOr(e.to, <<>>)>>

\* What a current row shows of the entry it was made from.
CurrentPair(x) == <<x.currency_code, x.active_since>>
EntryPair(e) == <<e.iso4217, PyOr(e.from, STR_Unknown)>>

\* The historical rows of a region, as triples, in the CSV and in the JSON view.
CsvTriples(region_code) ==
    LET rows == SelectSeq(historical_df, LAMBDA x : x.country_code = region_code)
    IN  [i \in DOMAIN rows |-> HistoricalTriple(rows[i])]

JsonTriples(region_code) ==
    IF HasKey(historical_json, region_code)
    THEN LET list == historical_json[CHOOSE k \in DOMAIN historical_json :
                                         historical_json[k][1] = region_code][2].currencies
         IN  [i \in DOMAIN list |-> HistoricalTriple(list[i])]
    ELSE <<>>

\* The current rows of a region, as pairs, in the CSV and in the JSON view.
CurrentPairs(region_code) ==
    {CurrentPair(x) : x \in {row \in Range(current_df) : row.country_code = region_code}}
        \cup {CurrentPair(e[2]) : e \in {x \in Range(current_json) : x[1] = region_code}}

\* C6: every row of the four views was made from a tender entry of its region
\* (no more rows show an entry's data than the region has tender entries with
\* that data); a region whose entries are all non-tender has no row and no key.
C6_NonTenderExcluded ==
    \A region_code \in RegionCodes :
        LET tender == SelectSeq(ListOf(region_code), IsTender)
            tenderTriples == [i \in DOMAIN tender |-> EntryTriple(tender[i])]
        IN  /\ \A t \in Range(CsvTriples(region_code)) :
                  Count(CsvTriples(region_code), t) <= Count(tenderTriples, t)
            /\ \A t \in Range(JsonTriples(region_code)) :
                  Count(JsonTriples(region_code), t) <= Count(tenderTriples, t)
            /\ \A c \in CurrentPairs(region_code) :
                  \E e \in Range(tender) : EntryPair(e) = c
            /\ tender = <<>> => ~RegionHasOutput(region_code)

\* All four views were generated and written; a region with a proper country
\* record holds only a non-tender entry without end date, and has no output.
C6_Witness ==
    /\ pc = "iso_mappings"
    /\ \E k \in DOMAIN currency_regions :
          /\ ~InvalidRegion(currency_regions[k][1])
          /\ Len(currency_regions[k][2]) = 1
          /\ currency_regions[k][2][1].tender = "false"
          /\ currency_regions[k][2][1].to = None
          /\ ~RegionHasOutput(currency_regions[k][1])

-----------------------------------------------------------------------------
(* C7 *)

OutputFiles ==
    <<"current_currencies.csv", "historical_currencies.csv", "current_currencies.json",
      "historical_currencies.json", "iso_mappings.json", "metadata.json">>

\* The steps whose failure the claim names: the fetch, the parse, the six writes.
FatalSteps ==
    {"fetch", "parse", "current_csv", "historical_csv", "current_json",
     "historical_json", "iso_mappings", "metadata"}

Failed(step) == <<step, "failed">> \in Range(history)

\* C7: main returns 0 exactly when the fetch, the parse and the six writes have
\* completed; a failed step is attempted once, nothing runs after it, and main
\* returns 1.
C7_ExitStatus ==
    /\ \A i, j \in DOMAIN history : i # j => history[i][1] # history[j][1]
    /\ \A i \in DOMAIN history : history[i][2] = "failed" => i = Len(history)
    /\ pc = "done" =>
          /\ exit_code \in {0, 1}
          /\ exit_code = 0 <=> \A step \in FatalSteps : Completed(step)
          /\ (\E step \in FatalSteps : Failed(step)) => exit_code = 1

\* main has returned 1 after a document without currency-data section was
\* fetched and its parse failed.
C7_Witness ==
    /\ pc = "done"
    /\ exit_code = 1
    /\ Completed("fetch")
    /\ xml_content = NoCurrencyData
    /\ Failed("parse")

-----------------------------------------------------------------------------
(* C8 *)

IsPrefix(a, b) == Len(a) <= Len(b) /\ \A i \in DOMAIN a : a[i] = b[i]

\* The files are written in the fixed order, after the fetch and the parse.
C8_OrderedAfterParse ==
    /\ IsPrefix(written, OutputFiles)
    /\ written # <<>> => Completed("fetch") /\ Completed("parse")
    /\ (Failed("fetch") \/ Failed("parse")) => written = <<>>
    /\ (\E i \in DOMAIN written : written[i] = "metadata.json") => written = OutputFiles

\* A written file stays written, and after a failed step no file is written.
C8_NoCleanupNoLaterWrite ==
    /\ IsPrefix(written, written')
    /\ (\E step \in DOMAIN history : history[step][2] = "failed") => written' = written

\* C8: outputs are written in the fixed order after fetch and parse; a failure
\* leaves the files written so far in place and writes no later file.
C8_WriteOrder == []C8_OrderedAfterParse /\ [][C8_NoCleanupNoLaterWrite]_vars

\* The write of historical_currencies.json failed: main returned 1 and the
\* three files written before it are in place.
C8_Witness ==
    /\ pc = "done"
    /\ exit_code = 1
    /\ Failed("historical_json")
    /\ written = SubSeq(OutputFiles, 1, 3)

-----------------------------------------------------------------------------
(* C9 *)

\* The currency_code and currency_name of every row and entry of the four views.
EmittedCurrencyNames ==
    {<<x.currency_code, x.currency_name>> : x \in Range(current_df)}
        \cup {<<x.currency_code, x.currency_name>> : x \in Range(historical_df)}
        \cup {<<e[2].currency_code, e[2].currency_name>> : e \in Range(current_json)}
        \cup UNION {{<<x.currency_code, x.currency_name>> : x \in Range(e[2].currencies)} :
                       e \in Range(historical_json)}

LoadFailed(step) == <<step, "empty">> \in Range(history)

\* C9: a failed load of a reference table yields an empty mapping and is not a
\* failure of the run: with fetch, parse and writes completed main returns 0
\* and the six files are written; with an empty currency table every
\* currency_name is the raw currency code; a region missing from the country
\* table has no output.
C9_LoadFailureDegrades ==
    /\ ~Failed("load3166") /\ ~Failed("load4217")
    /\ LoadFailed("load3166") => DOMAIN iso3166_data = {}
    /\ LoadFailed("load4217") => DOMAIN iso4217_data = {}
    /\ (LoadFailed("load3166") \/ LoadFailed("load4217")) =>
          /\ pc # "except" \/ \E step \in FatalSteps \cup {"makedirs"} : Failed(step)
          /\ (pc = "done" /\ \A step \in FatalSteps : Completed(step)) =>
                exit_code = 0 /\ written = OutputFiles
    /\ DOMAIN iso4217_data = {} => \A e \in EmittedCurrencyNames : e[2] = e[1]
    /\ \A region_code \in RegionCodes :
          region_code \notin DOMAIN iso3166_data => ~RegionHasOutput(region_code)

\* The currency table failed to load, the run wrote the six files and returned
\* 0, and the current view shows a currency under its raw code.
C9_Witness ==
    /\ pc = "done"
    /\ exit_code = 0
    /\ LoadFailed("load4217")
    /\ written = OutputFiles
    /\ \E row \in Range(current_df) : row.currency_name = row.currency_code

====
